---------------------------- MODULE Spec2Model ----------------------------
(***************************************************************************)
(* A model of the video generation service: the FastAPI job flow of        *)
(* app.py (video_status_store, the background pipeline                     *)
(* generate_video_async) and the operation layer of video_generator.py     *)
(* (operation_store, generate_video_with_veo3,                             *)
(* check_video_generation_status, poll_for_video_completion).              *)
(*                                                                         *)
(* Time is the wall clock time.time() in whole seconds.  Code that runs    *)
(* on the event loop between two awaits is one atomic action; the          *)
(* submission runs on an executor thread and is an action of its own.      *)
(*                                                                         *)
(* Optional values (Python's None or a value) are sequences of length 0    *)
(* or 1: None is << >>, a value v is << v >>.                              *)
(***************************************************************************)
EXTENDS Integers, Sequences, FiniteSets, TLC

VARIABLES
    now,                 \* time.time(), in seconds
    video_status_store,  \* app.py:95, job id -> Job Record
    operation_store,     \* video_generator.py:16, operation name -> metadata
    tasks,               \* the background tasks, one per POST /generate-video
    uuids,               \* how many uuid4() values have been drawn
    response,            \* the HTTP response, when the last step was a request
    returned,            \* history: identifiers generate_video_with_veo3 returned
    pollLoop,            \* the direct call of poll_for_video_completion
    lastCheck,           \* the direct status check, when the last step was one
    cli                  \* the run of main.py: where it stands, what it printed

vars == <<now, video_status_store, operation_store, tasks, uuids, response,
          returned, pollLoop, lastCheck, cli>>

---------------------------------------------------------------------------
(* Bounds of the model. *)

\* POST /generate-video calls in one run
MaxTasks == 2
\* the last second at which a request or a pending event-loop step may run
MaxStepTime == 1
\* direct generate_video_with_veo3 calls in one run (SpecGen, SpecPoll)
MaxSubmits == 2
\* largest poll_interval and timeout passed to a direct poll loop (SpecPoll)
MaxInterval == 2
MaxTimeout == 3

(* Program constants. *)

\* poll_for_video_completion(operation_name, poll_interval=30, timeout=1800)
poll_interval == 30
timeout == 1800
\* if elapsed_time > 10
CompletionThreshold == 10
\* def generate_veo3_prompt_with_gemini(gemini_model, product_name, ...)
PromptParams == 4

None == << >>
Some(v) == << v >>
IsNone(o) == o = << >>
Value(o) == o[1]

Max(a, b) == IF a >= b THEN a ELSE b
\* the clock never has to run past the last timer a step can set
MaxTime == MaxStepTime + Max(poll_interval, CompletionThreshold + MaxTimeout + MaxInterval + 1)

---------------------------------------------------------------------------
(* Strings the code builds.  A product name is a sequence of characters.   *)

ProductNames == { <<"A", " ", "b">>, <<"c">> }

Lower(c) == CASE c = "A" -> "a" [] c = "B" -> "b" [] c = "C" -> "c" [] OTHER -> c

\* product_name.replace(' ', '_').lower()
Normalise(name) ==
    [i \in 1..Len(name) |-> Lower(IF name[i] = " " THEN "_" ELSE name[i])]

\* f"{request.product_name.replace(' ', '_').lower()}_{int(time.time())}"
VideoId(name, t) == [name |-> Normalise(name), stamp |-> t]

GCS_BUCKET == "bucket"

\* f"gs://{GCS_BUCKET}/{video_filename_prefix}/"
OutputGcsUri(name, t) == [bucket |-> GCS_BUCKET, dir |-> VideoId(name, t)]

\* A variant of uuid4 that gives the same value at every call.
Uuid4Same(n) == "uuid" \o ToString(1)

\* str(uuid.uuid4()): the n-th value drawn; uuid4 values do not repeat
Uuid4(n) == "uuid" \o ToString(n)

\* f"video_generation_{operation_id}"
OperationName(operation_id) == [prefix |-> "video_generation_", id |-> operation_id]

dummy_operation_name == [prefix |-> "dummy_operation_name", id |-> ""]

\* "gs://dummy-bucket/generated_video.mp4"
dummy_result_uri ==
    [dir |-> [bucket |-> "dummy-bucket", dir |-> [name |-> << >>, stamp |-> 0]],
     file |-> "generated_video.mp4"]

\* f"{metadata['output_gcs_uri']}{metadata['operation_id']}.mp4"
ResultUri(metadata) ==
    [dir |-> metadata.output_gcs_uri, file |-> metadata.operation_id \o ".mp4"]

---------------------------------------------------------------------------
(* video_generator.py: the operation store, submission, the status poller. *)

\* A variant of the store's write that keeps only the key it writes.
store_operation_metadataOnly(store, operation_name, metadata) ==
    [k \in {operation_name} |-> metadata]

\* operation_store[operation_name] = metadata
store_operation_metadata(store, operation_name, metadata) ==
    [k \in DOMAIN store \cup {operation_name} |->
        IF k = operation_name THEN metadata ELSE store[k]]

\* operation_store.get(operation_name)
get_operation_metadata(store, operation_name) ==
    IF operation_name \in DOMAIN store THEN Some(store[operation_name]) ELSE None

\* What the two backend calls of one submission can do: vertexai.init raises
\* (line 30), the primary model call succeeds (54-80), the primary call
\* raises and the fallback succeeds (82-147), both raise (149-153).
BackendOutcomes == {"init_fails", "primary", "fallback", "both_fail"}

\* The metadata dict of lines 64-74 (primary) and 124-139 (fallback).  Keys
\* a dict does not hold yet (completed_at, result_uri, model_used) are None.
Metadata(operation_id, params, status, t, model_used) ==
    [operation_id |-> operation_id,
     prompt |-> params.prompt,
     duration_seconds |-> params.duration_seconds,
     aspect_ratio |-> params.aspect_ratio,
     sample_count |-> params.sample_count,
     output_gcs_uri |-> params.output_gcs_uri,
     status |-> status,
     created_at |-> t,
     completed_at |-> None,
     result_uri |-> None,
     model_used |-> model_used]

\* A variant of generate_video_with_veo3 whose fallback path returns the
\* operation name without storing its metadata.
generate_video_with_veo3_FallbackUnstored(store, params, n, t, outcome) ==
    LET operation_id == Uuid4(n + 1)
        operation_name == OperationName(operation_id)
    IN  CASE outcome = "init_fails" ->
                [operation_name |-> dummy_operation_name, store |-> store, uuids |-> n]
          [] outcome = "primary" ->
                [operation_name |-> operation_name,
                 store |-> store_operation_metadata(store, operation_name,
                              Metadata(operation_id, params, "in_progress", t, None)),
                 uuids |-> n + 1]
          [] outcome = "fallback" ->
                [operation_name |-> operation_name, store |-> store, uuids |-> n + 1]
          [] OTHER ->
                [operation_name |-> dummy_operation_name, store |-> store, uuids |-> n + 1]

\* generate_video_with_veo3(veo3_prompt, output_gcs_uri, duration_seconds,
\* aspect_ratio, sample_count), run when n uuids have been drawn, at time t,
\* with the backend behaving as `outcome`.  Gives the identifier returned,
\* the store and the uuid count afterwards.
generate_video_with_veo3(store, params, n, t, outcome) ==
    LET operation_id == Uuid4(n + 1)
        operation_name == OperationName(operation_id)
    IN  CASE outcome = "init_fails" ->
                [operation_name |-> dummy_operation_name, store |-> store, uuids |-> n]
          [] outcome = "primary" ->
                [operation_name |-> operation_name,
                 store |-> store_operation_metadata(store, operation_name,
                              Metadata(operation_id, params, "in_progress", t, None)),
                 uuids |-> n + 1]
          [] outcome = "fallback" ->
                [operation_name |-> operation_name,
                 store |-> store_operation_metadata(store, operation_name,
                              Metadata(operation_id, params, "production_plan_generated",
                                       t, Some("gemini-2.5-flash"))),
                 uuids |-> n + 1]
          [] OTHER ->
                [operation_name |-> dummy_operation_name, store |-> store, uuids |-> n + 1]

\* The dicts check_video_generation_status returns.
StatusResult(status, uri, error) == [status |-> status, uri |-> uri, error |-> error]

\* if elapsed_time > 10
Completed(elapsed_time) == elapsed_time > CompletionThreshold

\* A variant of the status poller that reports an operation whose stored
\* status is not in_progress (the fallback's production plan) as failed.
check_video_generation_statusPlanFails(store, operation_name, t) ==
    IF operation_name = dummy_operation_name
    THEN [result |-> StatusResult("succeeded", Some(dummy_result_uri), None),
          store |-> store]
    ELSE LET found == get_operation_metadata(store, operation_name) IN
         IF IsNone(found)
         THEN [result |-> StatusResult("error", None, Some("Operation not found")),
               store |-> store]
         ELSE IF Value(found).status = "production_plan_generated"
         THEN [result |-> StatusResult("failed", None, Some("no video")),
               store |-> store]
         ELSE LET metadata == Value(found)
                  elapsed_time == t - metadata.created_at
              IN  IF Completed(elapsed_time)
                  THEN LET result_uri == ResultUri(metadata)
                           updated == [metadata EXCEPT !.status = "succeeded",
                                                       !.completed_at = Some(t),
                                                       !.result_uri = Some(result_uri)]
                       IN  [result |-> StatusResult("succeeded", Some(result_uri), None),
                            store |-> store_operation_metadata(store, operation_name,
                                                               updated)]
                  ELSE [result |-> StatusResult("in_progress", None, None),
                        store |-> store]

\* A variant of the status poller without the sentinel's special case.
check_video_generation_statusNoSentinel(store, operation_name, t) ==
    LET found == get_operation_metadata(store, operation_name) IN
    IF IsNone(found)
    THEN [result |-> StatusResult("error", None, Some("Operation not found")),
          store |-> store]
    ELSE LET metadata == Value(found)
             elapsed_time == t - metadata.created_at
         IN  IF Completed(elapsed_time)
             THEN LET result_uri == ResultUri(metadata)
                      updated == [metadata EXCEPT !.status = "succeeded",
                                                  !.completed_at = Some(t),
                                                  !.result_uri = Some(result_uri)]
                  IN  [result |-> StatusResult("succeeded", Some(result_uri), None),
                       store |-> store_operation_metadata(store, operation_name,
                                                          updated)]
             ELSE [result |-> StatusResult("in_progress", None, None),
                   store |-> store]

\* check_video_generation_status(operation_name) at time t: the dict it
\* returns and the store afterwards.
check_video_generation_status(store, operation_name, t) ==
    IF operation_name = dummy_operation_name
    THEN [result |-> StatusResult("succeeded", Some(dummy_result_uri), None),
          store |-> store]
    ELSE LET found == get_operation_metadata(store, operation_name) IN
         IF IsNone(found)
         THEN [result |-> StatusResult("error", None, Some("Operation not found")),
               store |-> store]
         ELSE LET metadata == Value(found)
                  elapsed_time == t - metadata.created_at
              IN  IF Completed(elapsed_time)
                  THEN LET result_uri == ResultUri(metadata)
                           updated == [metadata EXCEPT !.status = "succeeded",
                                                       !.completed_at = Some(t),
                                                       !.result_uri = Some(result_uri)]
                       IN  [result |-> StatusResult("succeeded", Some(result_uri), None),
                            store |-> store_operation_metadata(store, operation_name,
                                                               updated)]
                  ELSE [result |-> StatusResult("in_progress", None, None),
                        store |-> store]

---------------------------------------------------------------------------
(* video_generator.py: the poll loop.  A loop is a record: pc is where the *)
(* coroutine stands ("idle" before the call, "sleeping" in asyncio.sleep,  *)
(* "returned"), calls counts the status poller calls it made, wake is when *)
(* its sleep ends, value is what it returned, last the last status seen.   *)

IdleLoop ==
    [pc |-> "idle", operation_name |-> dummy_operation_name, interval |-> 0,
     timeout |-> 0, start_time |-> 0, wake |-> 0, calls |-> 0, sleeps |-> 0,
     last |-> "", value |-> None, returned_at |-> 0]

\* A variant of the loop test that still polls at the timeout itself.
WithinTimeoutInclusive(t, start_time, limit) == t - start_time <= limit

\* while time.time() - start_time < timeout
WithinTimeout(t, start_time, limit) == t - start_time < limit

\* A variant of the pass that sleeps and polls again after a failed or
\* error result.
PollIterateKeepPolling(store, loop, t) ==
    IF ~WithinTimeout(t, loop.start_time, loop.timeout)
    THEN [loop |-> [loop EXCEPT !.pc = "returned", !.value = None,
                                !.returned_at = t],
          store |-> store]
    ELSE LET c == check_video_generation_status(store, loop.operation_name, t)
             polled == [loop EXCEPT !.calls = @ + 1, !.last = c.result.status]
         IN  IF c.result.status = "succeeded"
             THEN [loop |-> [polled EXCEPT !.pc = "returned",
                                           !.value = c.result.uri,
                                           !.returned_at = t],
                   store |-> c.store]
             ELSE [loop |-> [polled EXCEPT !.pc = "sleeping",
                                           !.wake = t + loop.interval],
                   store |-> c.store]

\* One pass of the while loop at time t, from its test to the return or to
\* the sleep: the loop and the store afterwards.
PollIterate(store, loop, t) ==
    IF ~WithinTimeout(t, loop.start_time, loop.timeout)
    THEN [loop |-> [loop EXCEPT !.pc = "returned", !.value = None,
                                !.returned_at = t],
          store |-> store]
    ELSE LET c == check_video_generation_status(store, loop.operation_name, t)
             polled == [loop EXCEPT !.calls = @ + 1, !.last = c.result.status]
         IN  IF c.result.status = "succeeded"
             THEN [loop |-> [polled EXCEPT !.pc = "returned",
                                           !.value = c.result.uri,
                                           !.returned_at = t],
                   store |-> c.store]
             ELSE IF c.result.status \in {"failed", "error"}
             THEN [loop |-> [polled EXCEPT !.pc = "returned", !.value = None,
                                           !.returned_at = t],
                   store |-> c.store]
             ELSE [loop |-> [polled EXCEPT !.pc = "sleeping",
                                           !.wake = t + loop.interval],
                   store |-> c.store]

\* poll_for_video_completion(operation_name, poll_interval, timeout) called
\* at time t: start_time = time.time(), then the first pass.
poll_for_video_completion(store, operation_name, interval, limit, t) ==
    PollIterate(store,
                [IdleLoop EXCEPT !.operation_name = operation_name,
                                 !.interval = interval, !.timeout = limit,
                                 !.start_time = t],
                t)

\* A variant of the wake-up that polls twice in the pass: the second status
\* check follows the first with no sleep between them.
PollResumeTwice(store, loop, t) ==
    LET first == PollIterate(store, [loop EXCEPT !.sleeps = @ + 1], t) IN
    IF first.loop.pc = "sleeping" THEN PollIterate(first.store, first.loop, t)
    ELSE first

\* The loop wakes from asyncio.sleep(poll_interval) and runs the next pass.
PollResume(store, loop, t) ==
    PollIterate(store, [loop EXCEPT !.sleeps = @ + 1], t)

---------------------------------------------------------------------------
(* prompt_generator.py and its call from app.py.                           *)

Returned(value) == [raised |-> FALSE, value |-> value, message |-> ""]
Raised(message) == [raised |-> TRUE, value |-> None, message |-> message]

\* What Gemini can answer to generate_content (prompt_generator.py:58-64):
\* a text, a text that strips to "", or an error the function catches.
GeminiReplies == {"text", "blank", "error"}

\* generate_veo3_prompt_with_gemini called with the positional arguments
\* args.  The definition takes PromptParams parameters; a call with another
\* number of arguments raises TypeError before the body runs.
generate_veo3_prompt_with_gemini(args, reply) ==
    IF Len(args) # PromptParams
    THEN Raised("generate_veo3_prompt_with_gemini() missing 1 required positional argument: 'ad_brief'")
    ELSE CASE reply = "text" -> Returned(Some("veo3 prompt"))
           [] reply = "blank" -> Returned(Some(""))
           [] OTHER -> Returned(None)

\* The call as app.py:113 writes it: three arguments.
PromptCallAsWritten(request, reply) ==
    generate_veo3_prompt_with_gemini(
        <<request.product_name, request.product_description, request.ad_brief>>, reply)

\* The call main.py:48 and app.py:113 both mean: a generator whose
\* parameters are the three they pass (the model argument bound elsewhere).
PromptCallAsMeant(request, reply) ==
    generate_veo3_prompt_with_gemini(
        <<"gemini_model", request.product_name, request.product_description,
          request.ad_brief>>, reply)

\* Spec lets the prompt stage end in every way generate_video_async handles:
\* the call as written, which raises TypeError, and the call as meant.
PromptResults(request) ==
    {PromptCallAsWritten(request, reply) : reply \in GeminiReplies}
        \cup {PromptCallAsMeant(request, reply) : reply \in GeminiReplies}

---------------------------------------------------------------------------
(* app.py: Job Records and the HTTP handlers.                              *)

\* ProductVideoRequest, after pydantic's validation
Requests ==
    [product_name : ProductNames,
     product_description : {"a description"},
     ad_brief : {"an ad brief"},
     duration_seconds : {8},
     aspect_ratio : {"16:9"},
     sample_count : {1}]

\* A variant of the record POST creates: as if the pipeline's first write
\* had run inside the request.
QueuedRecordStarted ==
    [status |-> "processing", operation_name |-> None, generated_samples |-> None,
     error_message |-> None, progress_percentage |-> 10]

\* app.py:194-200
QueuedRecord ==
    [status |-> "queued", operation_name |-> None, generated_samples |-> None,
     error_message |-> None, progress_percentage |-> 0]

\* app.py:102-108
ProcessingRecord ==
    [status |-> "processing", operation_name |-> None, generated_samples |-> None,
     error_message |-> None, progress_percentage |-> 10]

\* video_status_store[video_id] = record
PutRecord(store, video_id, record) ==
    [k \in DOMAIN store \cup {video_id} |-> IF k = video_id THEN record ELSE store[k]]

\* del video_status_store[video_id]
DelRecord(store, video_id) == [k \in DOMAIN store \ {video_id} |-> store[k]]

\* A variant of the completed update that leaves error_message as it is.
CompletedUpdateKeepError(record, final_result_uri) ==
    [record EXCEPT !.status = "completed",
                   !.generated_samples =
                       Some(<<[uri |-> final_result_uri, encoding |-> "application/json"]>>),
                   !.progress_percentage = 100]

\* app.py:135-140, video_status_store[video_id].update({...})
CompletedUpdate(record, final_result_uri) ==
    [record EXCEPT !.status = "completed",
                   !.generated_samples =
                       Some(<<[uri |-> final_result_uri, encoding |-> "application/json"]>>),
                   !.error_message = None,
                   !.progress_percentage = 100]

\* app.py:147-151, video_status_store[video_id].update({...})
FailedUpdate(record, message) ==
    [record EXCEPT !.status = "failed",
                   !.error_message = Some(message),
                   !.progress_percentage = 0]

\* str(KeyError(video_id))
KeyErrorMessage == "KeyError: video_id"

\* A variant of the except clause that logs the exception and writes nothing.
HandleExceptionLogOnly(store, video_id, message) ==
    [store |-> store, escaped |-> None, wrote |-> FALSE]

\* The except clause of generate_video_async (145-151) handling an exception
\* with text `message`: the store afterwards and the exception that leaves
\* the task, if one does (the update raises KeyError when the record is gone).
HandleException(store, video_id, message) ==
    IF video_id \in DOMAIN store
    THEN [store |-> PutRecord(store, video_id, FailedUpdate(store[video_id], message)),
          escaped |-> None, wrote |-> TRUE]
    ELSE [store |-> store, escaped |-> Some(KeyErrorMessage), wrote |-> FALSE]

\* app.py:134-151: what generate_video_async does with the value
\* generate_and_poll_video returned.
FinishPipeline(store, video_id, final_result_uri) ==
    IF ~IsNone(final_result_uri)
    THEN IF video_id \in DOMAIN store
         THEN [store |-> PutRecord(store, video_id,
                            CompletedUpdate(store[video_id], Value(final_result_uri))),
               escaped |-> None, wrote |-> TRUE]
         ELSE HandleException(store, video_id, KeyErrorMessage)
    ELSE HandleException(store, video_id, "Video generation failed or timed out.")

NoVideoId == [name |-> << >>, stamp |-> 0]

IdleTask ==
    [pc |-> "idle", video_id |-> NoVideoId, request |-> None, params |-> None,
     operation_name |-> None, loop |-> IdleLoop, escaped |-> None]

Tasks == 1..MaxTasks

Started == {p \in Tasks : tasks[p].pc # "idle"}

\* The startJob call that last created the record under video_id.
Creator(video_id) ==
    IF \E p \in Started : tasks[p].video_id = video_id
    THEN Some(CHOOSE p \in Started :
                 /\ tasks[p].video_id = video_id
                 /\ \A q \in Started : tasks[q].video_id = video_id => q <= p)
    ELSE None

NoResponse == [op |-> "", code |-> 0, video_id |-> NoVideoId, body |-> None]

NoCheck == [operation_name |-> dummy_operation_name, at |-> 0, called |-> FALSE,
            result |-> StatusResult("", None, None)]

\* The ways the prompt stage of task p can end.
TaskPromptResults(p) ==
    IF IsNone(tasks[p].request) THEN {} ELSE PromptResults(Value(tasks[p].request))

\* main.py before it has read its input: nothing asked, nothing printed.
CliStart ==
    [pc |-> "input", product_name |-> << >>, veo3_prompt |-> None,
     final_video_url |-> None, printed |-> << >>]

---------------------------------------------------------------------------
(* The HTTP job flow.                                                      *)

Init ==
    /\ now = 0
    /\ video_status_store = << >>
    /\ operation_store = << >>
    /\ tasks = [p \in Tasks |-> IdleTask]
    /\ uuids = 0
    /\ response = NoResponse
    /\ returned = {}
    /\ pollLoop = IdleLoop
    /\ lastCheck = NoCheck
    /\ cli = CliStart

\* POST /generate-video (app.py:172-224): the record is created queued, the
\* pipeline is added as a background task, the id is returned.
generate_product_video(request) ==
    /\ Cardinality(Started) < MaxTasks
    /\ now <= MaxStepTime
    /\ LET p == Cardinality(Started) + 1
           video_id == VideoId(request.product_name, now)
       IN  /\ video_status_store' = PutRecord(video_status_store, video_id, QueuedRecord)
           /\ tasks' = [tasks EXCEPT ![p] = [IdleTask EXCEPT !.pc = "scheduled",
                                                            !.video_id = video_id,
                                                            !.request = Some(request)]]
           /\ response' = [op |-> "POST", code |-> 200, video_id |-> video_id,
                           body |-> None]
    /\ UNCHANGED <<now, operation_store, uuids, returned, pollLoop,
                   lastCheck, cli>>

\* A variant of the pipeline's first step that tests the prompt with
\* `is None`: an empty prompt goes on to the submission.
PipelineStartEmptyPasses(p, prompt) ==
    /\ tasks[p].pc = "scheduled"
    /\ LET video_id == tasks[p].video_id
           request == Value(tasks[p].request)
           begun == PutRecord(video_status_store, video_id, ProcessingRecord)
           failure == IF prompt.raised THEN Some(prompt.message)
                      ELSE IF IsNone(prompt.value)
                      THEN Some("Failed to generate a valid prompt")
                      ELSE None
       IN  /\ IF ~IsNone(failure)
              THEN LET h == HandleException(begun, video_id, Value(failure)) IN
                   /\ video_status_store' = h.store
                   /\ tasks' = [tasks EXCEPT ![p].pc =
                                    IF IsNone(h.escaped) THEN "finished" ELSE "raised",
                                             ![p].escaped = h.escaped]
              ELSE /\ video_status_store' =
                          [begun EXCEPT ![video_id].progress_percentage = 30]
                   /\ tasks' = [tasks EXCEPT
                          ![p].pc = "in_executor",
                          ![p].params = Some(
                              [prompt |-> Value(prompt.value),
                               output_gcs_uri |-> OutputGcsUri(request.product_name, now),
                               duration_seconds |-> request.duration_seconds,
                               aspect_ratio |-> request.aspect_ratio,
                               sample_count |-> request.sample_count])]
    /\ response' = NoResponse
    /\ UNCHANGED <<now, operation_store, uuids, returned, pollLoop,
                   lastCheck, cli>>

\* generate_video_async from its first line to its first await
\* (app.py:100-126, video_generator.py:229-242), the prompt call having
\* ended as `prompt`: the record is set to processing; without a prompt the
\* except clause records the failure; with one, progress is 30 and the
\* submission is handed to the executor.
PipelineStart(p, prompt) ==
    /\ tasks[p].pc = "scheduled"
    /\ LET video_id == tasks[p].video_id
           request == Value(tasks[p].request)
           begun == PutRecord(video_status_store, video_id, ProcessingRecord)
           failure == IF prompt.raised THEN Some(prompt.message)
                      ELSE IF IsNone(prompt.value) \/ prompt.value = Some("")
                      THEN Some("Failed to generate a valid prompt")
                      ELSE None
       IN  /\ IF ~IsNone(failure)
              THEN LET h == HandleException(begun, video_id, Value(failure)) IN
                   /\ video_status_store' = h.store
                   /\ tasks' = [tasks EXCEPT ![p].pc =
                                    IF IsNone(h.escaped) THEN "finished" ELSE "raised",
                                             ![p].escaped = h.escaped]
              ELSE /\ video_status_store' =
                          [begun EXCEPT ![video_id].progress_percentage = 30]
                   /\ tasks' = [tasks EXCEPT
                          ![p].pc = "in_executor",
                          ![p].params = Some(
                              [prompt |-> Value(prompt.value),
                               output_gcs_uri |-> OutputGcsUri(request.product_name, now),
                               duration_seconds |-> request.duration_seconds,
                               aspect_ratio |-> request.aspect_ratio,
                               sample_count |-> request.sample_count])]
    /\ response' = NoResponse
    /\ UNCHANGED <<now, operation_store, uuids, returned, pollLoop,
                   lastCheck, cli>>

\* The executor thread runs generate_video_with_veo3
\* (video_generator.py:239-242).
SubmitRun(p, outcome) ==
    /\ tasks[p].pc = "in_executor"
    /\ LET g == generate_video_with_veo3(operation_store, Value(tasks[p].params),
                                         uuids, now, outcome)
       IN  /\ operation_store' = g.store
           /\ uuids' = g.uuids
           /\ returned' = returned \cup {g.operation_name}
           /\ tasks' = [tasks EXCEPT ![p].pc = "submitted",
                                     ![p].operation_name = Some(g.operation_name)]
    /\ response' = NoResponse
    /\ UNCHANGED <<now, video_status_store, pollLoop, lastCheck, cli>>

\* A task whose poll loop stands at `polled`: asleep, or finishing with the
\* value the loop returned (app.py:134-151).
AfterPoll(p, polled) ==
    /\ operation_store' = polled.store
    /\ IF polled.loop.pc = "sleeping"
       THEN /\ tasks' = [tasks EXCEPT ![p].pc = "sleeping", ![p].loop = polled.loop]
            /\ UNCHANGED video_status_store
       ELSE LET f == FinishPipeline(video_status_store, tasks[p].video_id,
                                    polled.loop.value)
            IN  /\ video_status_store' = f.store
                /\ tasks' = [tasks EXCEPT ![p].pc =
                                 IF IsNone(f.escaped) THEN "finished" ELSE "raised",
                                          ![p].loop = polled.loop,
                                          ![p].escaped = f.escaped]

\* generate_and_poll_video resumes with the identifier and enters the poll
\* loop with its default interval and timeout (video_generator.py:244-246).
PipelineResume(p) ==
    /\ tasks[p].pc = "submitted"
    /\ AfterPoll(p, poll_for_video_completion(operation_store,
                        Value(tasks[p].operation_name), poll_interval, timeout, now))
    /\ response' = NoResponse
    /\ UNCHANGED <<now, uuids, returned, pollLoop, lastCheck, cli>>

\* asyncio.sleep(poll_interval) ends (video_generator.py:222, 212-219).
PipelineWake(p) ==
    /\ tasks[p].pc = "sleeping"
    /\ now >= tasks[p].loop.wake
    /\ AfterPoll(p, PollResume(operation_store, tasks[p].loop, now))
    /\ response' = NoResponse
    /\ UNCHANGED <<now, uuids, returned, pollLoop, lastCheck, cli>>

\* VideoStatusResponse as get_video_status builds it (app.py:243-260).
StatusPayload(video_id, status_info) ==
    [video_id |-> video_id,
     status |-> status_info.status,
     operation_name |-> status_info.operation_name,
     generated_samples |->
         IF IsNone(status_info.generated_samples)
               \/ status_info.generated_samples = Some(<< >>)
         THEN None ELSE status_info.generated_samples,
     error_message |-> status_info.error_message,
     progress_percentage |-> status_info.progress_percentage]

\* A variant of the GET answer that reports an id without a record as a
\* failed job.
get_video_status_responseAbsentFailed(store, video_id) ==
    IF video_id \notin DOMAIN store
    THEN [op |-> "GET", code |-> 200, video_id |-> video_id,
          body |-> Some(StatusPayload(video_id,
                           FailedUpdate(QueuedRecord, "Video ID not found")))]
    ELSE [op |-> "GET", code |-> 200, video_id |-> video_id,
          body |-> Some(StatusPayload(video_id, store[video_id]))]

\* What GET /video-status/{video_id} answers in a store (app.py:226-260).
get_video_status_response(store, video_id) ==
    IF video_id \notin DOMAIN store
    THEN [op |-> "GET", code |-> 404, video_id |-> video_id, body |-> None]
    ELSE [op |-> "GET", code |-> 200, video_id |-> video_id,
          body |-> Some(StatusPayload(video_id, store[video_id]))]

\* The ids a client asks about: the ids it was given, and one it was not.
UnknownId == [name |-> <<"x">>, stamp |-> 0]
AskedIds == {tasks[p].video_id : p \in Started} \cup {UnknownId}

\* GET /video-status/{video_id}
get_video_status(video_id) ==
    /\ response' = get_video_status_response(video_status_store, video_id)
    /\ UNCHANGED <<now, video_status_store, operation_store, tasks, uuids,
                   returned, pollLoop, lastCheck, cli>>

\* DELETE /video-status/{video_id} (app.py:262-271)
delete_video_status(video_id) ==
    /\ IF video_id \notin DOMAIN video_status_store
       THEN /\ response' = [op |-> "DELETE", code |-> 404, video_id |-> video_id,
                            body |-> None]
            /\ UNCHANGED video_status_store
       ELSE /\ video_status_store' = DelRecord(video_status_store, video_id)
            /\ response' = [op |-> "DELETE", code |-> 200, video_id |-> video_id,
                            body |-> None]
    /\ UNCHANGED <<now, operation_store, tasks, uuids, returned, pollLoop,
                   lastCheck, cli>>

\* Steps the event loop or the executor can take at once.
PendingStep ==
    \E p \in Tasks : tasks[p].pc \in {"scheduled", "in_executor", "submitted"}

\* A sleep that has run its interval.
DueTimer ==
    \/ \E p \in Tasks : tasks[p].pc = "sleeping" /\ tasks[p].loop.wake <= now
    \/ pollLoop.pc = "sleeping" /\ pollLoop.wake <= now

\* When the sleeps now running end.
Wakes ==
    {tasks[p].loop.wake : p \in {q \in Tasks : tasks[q].pc = "sleeping"}}
        \cup (IF pollLoop.pc = "sleeping" THEN {pollLoop.wake} ELSE {})

\* Time passes until t.  A timer fires when it is due, so t is not later
\* than the next one; and within the model's horizon no pending step is put
\* off past MaxStepTime.
Advance(t) ==
    /\ t > now
    /\ t <= MaxTime
    /\ ~DueTimer
    /\ \A w \in Wakes : t <= w
    /\ PendingStep => t <= MaxStepTime
    /\ now' = t
    /\ response' = NoResponse
    /\ UNCHANGED <<video_status_store, operation_store, tasks, uuids,
                   returned, pollLoop, lastCheck, cli>>

\* The job flow reads the clock in requests and pending steps, which run up
\* to MaxStepTime, and when a sleep ends: the clock moves second by second
\* up to MaxStepTime and from there to the next timer.
Tick ==
    \E t \in {now + 1} \cup Wakes :
        /\ t <= MaxStepTime \/ t \in Wakes
        /\ Advance(t)

\* The steps that change the job flow's state.
JobFlowNext ==
    \/ \E request \in Requests : generate_product_video(request)
    \/ \E p \in Tasks : \E prompt \in TaskPromptResults(p) : PipelineStart(p, prompt)
    \/ \E p \in Tasks : \E outcome \in BackendOutcomes : SubmitRun(p, outcome)
    \/ \E p \in Tasks : PipelineResume(p)
    \/ \E p \in Tasks : PipelineWake(p)
    \/ \E video_id \in DOMAIN video_status_store : delete_video_status(video_id)
    \/ Tick

\* The job flow with the requests that leave its state as it is: GET, and
\* DELETE of an id that has no record.
Next ==
    \/ JobFlowNext
    \/ \E video_id \in AskedIds : get_video_status(video_id)
    \/ \E video_id \in AskedIds \ DOMAIN video_status_store :
          delete_video_status(video_id)

Spec == Init /\ [][Next]_vars

\* The steps of task p's pipeline: on the event loop and on the executor.
PipelineStep(p) ==
    \/ \E prompt \in TaskPromptResults(p) : PipelineStart(p, prompt)
    \/ \E outcome \in BackendOutcomes : SubmitRun(p, outcome)
    \/ PipelineResume(p)
    \/ PipelineWake(p)

\* The event loop runs a task that is ready, the executor runs a submitted
\* call, and time passes.  The fair runs of the flow are taken without the
\* requests that only read the store.
FairSpec ==
    /\ Init /\ [][JobFlowNext]_vars
    /\ \A p \in Tasks : WF_vars(PipelineStep(p))
    /\ WF_vars(Tick)

---------------------------------------------------------------------------
(* video_generator.py called directly, as its own __main__ block           *)
(* (248-264) and main.py:62 call it: submissions, single status checks and *)
(* a poll loop with the interval and timeout the caller passes.  The       *)
(* caller awaits its loop, as __main__ does: it runs one loop in a run.    *)

\* The arguments of a direct submission.
GenParams ==
    [prompt : {"A cinematic shot"},
     output_gcs_uri : {[bucket |-> "your-gcs-bucket-name",
                        dir |-> [name |-> <<"t">>, stamp |-> 0]]},
     duration_seconds : {8},
     aspect_ratio : {"16:9"},
     sample_count : {1}]

\* An operation name no submission returned.
UnknownOperation == OperationName("unknown")

PolledNames == returned \cup {UnknownOperation}

\* generate_video_with_veo3(...) called directly.
GenSubmit(params, outcome) ==
    /\ uuids < MaxSubmits
    /\ now <= MaxStepTime
    /\ LET g == generate_video_with_veo3(operation_store, params, uuids, now, outcome)
       IN  /\ operation_store' = g.store
           /\ uuids' = g.uuids
           /\ returned' = returned \cup {g.operation_name}
    /\ lastCheck' = NoCheck
    /\ UNCHANGED <<now, video_status_store, tasks, response, pollLoop, cli>>

\* await check_video_generation_status(operation_name), called directly.
GenCheck(operation_name) ==
    /\ LET c == check_video_generation_status(operation_store, operation_name, now)
       IN  /\ operation_store' = c.store
           /\ lastCheck' = [operation_name |-> operation_name, at |-> now,
                            called |-> TRUE, result |-> c.result]
    /\ UNCHANGED <<now, video_status_store, tasks, uuids, response, returned, pollLoop,
                   cli>>

\* The last time of the clock of SpecGen: an operation submitted at
\* MaxStepTime succeeds one second after the threshold and is checked
\* again one second later.
CheckHorizon == MaxStepTime + CompletionThreshold + 2

\* The last time of the clock of SpecPoll: every elapsed time the status
\* poller tells apart, and every loop begun by then, lies before it.
PollHorizon == MaxStepTime + CompletionThreshold + MaxTimeout + MaxInterval + 1

\* await poll_for_video_completion(operation_name, interval, limit), called
\* directly: up to the first return or sleep.
GenPollCall(operation_name, interval, limit) ==
    /\ pollLoop.pc = "idle"
    /\ now + limit + interval <= PollHorizon
    /\ LET polled == poll_for_video_completion(operation_store, operation_name,
                                               interval, limit, now)
       IN  /\ operation_store' = polled.store
           /\ pollLoop' = polled.loop
    /\ lastCheck' = NoCheck
    /\ UNCHANGED <<now, video_status_store, tasks, uuids, response, returned, cli>>

\* asyncio.sleep(interval) ends in a direct poll loop: the next pass.
GenPollWake ==
    /\ pollLoop.pc = "sleeping"
    /\ now >= pollLoop.wake
    /\ LET polled == PollResume(operation_store, pollLoop, now)
       IN  /\ operation_store' = polled.store
           /\ pollLoop' = polled.loop
    /\ lastCheck' = NoCheck
    /\ UNCHANGED <<now, video_status_store, tasks, uuids, response, returned, cli>>

\* A second passes, up to the time `last`.
GenTick(last) ==
    /\ now < last
    /\ Advance(now + 1)

\* Submissions and single status checks.
GenNext ==
    \/ \E params \in GenParams : \E outcome \in BackendOutcomes :
          GenSubmit(params, outcome)
    \/ \E operation_name \in PolledNames : GenCheck(operation_name)
    \/ GenTick(CheckHorizon)

SpecGen == Init /\ [][GenNext]_vars

\* Submissions and a poll loop.
PollNext ==
    \/ \E params \in GenParams : \E outcome \in BackendOutcomes :
          GenSubmit(params, outcome)
    \/ \E operation_name \in PolledNames :
          \E interval \in 1..MaxInterval : \E limit \in 0..MaxTimeout :
             GenPollCall(operation_name, interval, limit)
    \/ GenPollWake
    \/ GenTick(PollHorizon)

SpecPoll == Init /\ [][PollNext]_vars

---------------------------------------------------------------------------
(* main.py: the command-line flow.  It runs once, in a process of its own:  *)
(* input, the prompt call, the submission, the report.                     *)

\* The product names get_user_product_details returns: stripped, not empty
\* (it asks again until every field is filled in).
CliNames == ProductNames \cup { <<"a", "_", "b">>, <<"C">> }

\* f"gs://{GCS_BUCKET}/{video_filename}", video_filename the normalised
\* name, the time and ".mp4" (main.py:57-58)
CliOutputGcsUri(name, t) ==
    [bucket |-> GCS_BUCKET, dir |-> VideoId(name, t), ext |-> ".mp4"]

\* The lines main.py prints that the model keeps.
CompleteLine(url) == [text |-> "Video Generation Complete!", location |-> Some(url)]
FailedLine == [text |-> "Video generation failed or a URL was not returned.",
               location |-> None]
AbortedLine == [text |-> "Failed to generate a valid prompt. Video generation aborted.",
                location |-> None]

\* The ways the prompt call of main.py:48 can end: it passes the same three
\* arguments as app.py:113.
CliPromptResults(name) ==
    PromptResults([product_name |-> name, product_description |-> "a description",
                   ad_brief |-> "an ad brief"])

\* main.py:45-53 and 69-70: the input is read and the prompt generated.  An
\* exception of the call is not caught and ends the program; without a
\* prompt the program prints that it aborts.
CliPrompt(name, prompt) ==
    /\ cli.pc = "input"
    /\ cli' = IF prompt.raised
              THEN [cli EXCEPT !.pc = "crashed", !.product_name = name]
              ELSE IF IsNone(prompt.value) \/ prompt.value = Some("")
              THEN [cli EXCEPT !.pc = "exited", !.product_name = name,
                               !.printed = Append(@, AbortedLine)]
              ELSE [cli EXCEPT !.pc = "prompted", !.product_name = name,
                               !.veo3_prompt = prompt.value]
    /\ UNCHANGED <<now, video_status_store, operation_store, tasks, uuids,
                   response, returned, pollLoop, lastCheck>>

\* main.py:57-62: final_video_url = generate_video_with_veo3(veo3_prompt,
\* output_gcs_uri), with the defaults of its other parameters.
CliSubmit(outcome) ==
    /\ cli.pc = "prompted"
    /\ LET params == [prompt |-> Value(cli.veo3_prompt),
                      output_gcs_uri |-> CliOutputGcsUri(cli.product_name, now),
                      duration_seconds |-> 8,
                      aspect_ratio |-> "16:9",
                      sample_count |-> 1]
           g == generate_video_with_veo3(operation_store, params, uuids, now, outcome)
       IN  /\ operation_store' = g.store
           /\ uuids' = g.uuids
           /\ returned' = returned \cup {g.operation_name}
           /\ cli' = [cli EXCEPT !.pc = "submitted",
                                 !.final_video_url = Some(g.operation_name)]
    /\ UNCHANGED <<now, video_status_store, tasks, response, pollLoop, lastCheck>>

\* main.py:64-68: the value the submission returned is printed as the place
\* of the video; the program ends.
CliReport ==
    /\ cli.pc = "submitted"
    /\ cli' = [cli EXCEPT !.pc = "exited",
                          !.printed = Append(@,
                              IF ~IsNone(cli.final_video_url)
                              THEN CompleteLine(Value(cli.final_video_url))
                              ELSE FailedLine)]
    /\ UNCHANGED <<now, video_status_store, operation_store, tasks, uuids,
                   response, returned, pollLoop, lastCheck>>

CliNext ==
    \/ \E name \in CliNames : \E prompt \in CliPromptResults(name) :
          CliPrompt(name, prompt)
    \/ \E outcome \in BackendOutcomes : CliSubmit(outcome)
    \/ CliReport
    \/ GenTick(MaxStepTime)

SpecCli == Init /\ [][CliNext]_vars

---------------------------------------------------------------------------
(* Properties.                                                             *)

Terminal == {"completed", "failed"}

\* A pipeline that has begun and not ended: it has written its record and
\* will write it again.
InFlight(p) == tasks[p].pc \in {"in_executor", "submitted", "sleeping"}

\* The status changes C1 allows between one state and the next.  The first
\* step of a pipeline runs from queued through processing to failed without
\* an await when the prompt stage fails, so queued to failed is a change the
\* record makes through processing.
StatusStep(a, b) ==
    \/ a = b
    \/ a = "queued" /\ b \in {"processing", "failed"}
    \/ a = "processing" /\ b \in Terminal

\* C1: the status of the record under a job id only moves along
\* queued -> processing -> (completed | failed), and never leaves completed
\* or failed.
C1_StatusOrder ==
    [][\A id \in DOMAIN video_status_store \cap DOMAIN video_status_store' :
          StatusStep(video_status_store[id].status,
                     video_status_store'[id].status)]_vars

\* Every id POST /generate-video can return within the model's bounds.
AllIds == {VideoId(name, t) : name \in ProductNames, t \in 0..MaxStepTime}

HasTerminalRecord(id) ==
    /\ id \in DOMAIN video_status_store
    /\ video_status_store[id].status \in Terminal

Quiescent ==
    /\ \A p \in Tasks : tasks[p].pc \in {"idle", "finished", "raised"}
    /\ \A id \in DOMAIN video_status_store :
          video_status_store[id].status \in Terminal

C3_ResultXorError ==
    \A id \in DOMAIN video_status_store :
        LET r == video_status_store[id] IN
        /\ r.status = "completed" =>
              /\ ~IsNone(r.generated_samples)
              /\ Len(Value(r.generated_samples)) > 0
              /\ IsNone(r.error_message)
        /\ r.status = "failed" =>
              /\ ~IsNone(r.error_message)
              /\ Value(r.error_message) # ""
              /\ IsNone(r.generated_samples)
        /\ r.status \in {"queued", "processing"} =>
              /\ IsNone(r.generated_samples)
              /\ IsNone(r.error_message)

\* C3's case: a record completed by one pipeline after another pipeline of
\* the same id had already failed, and a failed record beside it.
C3_Witness ==
    /\ \E id \in DOMAIN video_status_store :
          video_status_store[id].status = "completed"
    /\ \E p \in Tasks : \E q \in Tasks :
          /\ p # q
          /\ tasks[p].video_id = tasks[q].video_id
          /\ tasks[p].pc = "finished" /\ tasks[q].pc = "finished"
          /\ IsNone(tasks[p].operation_name)
          /\ ~IsNone(tasks[q].loop.value)
          /\ tasks[q].video_id \in DOMAIN video_status_store
          /\ video_status_store[tasks[q].video_id].status = "completed"

C5_UniqueIds ==
    \A p \in Started : \A q \in Started :
        p # q => tasks[p].video_id # tasks[q].video_id

C8_ReturnedIsPollable ==
    /\ \A operation_name \in returned :
          operation_name # dummy_operation_name =>
              operation_name \in DOMAIN operation_store
    /\ (lastCheck.called /\ lastCheck.operation_name \in returned) =>
          ~(/\ lastCheck.result.status = "error"
            /\ lastCheck.result.error = Some("Operation not found"))

\* C8's case: the sentinel and an identifier of the fallback path have been
\* returned, and a status check of the latter has just answered.
C8_Witness ==
    /\ dummy_operation_name \in returned
    /\ lastCheck.called
    /\ lastCheck.operation_name \in returned
    /\ lastCheck.operation_name # dummy_operation_name
    /\ ~IsNone(operation_store[lastCheck.operation_name].model_used)
    /\ lastCheck.result.status \in {"in_progress", "succeeded"}

\* C9: once an Operation Record is succeeded no later step changes it, and
\* a status check of it answers the succeeded payload with the stored uri.
C9_Idempotent ==
    [][\A operation_name \in DOMAIN operation_store :
          operation_store[operation_name].status = "succeeded" =>
              /\ operation_store'[operation_name] = operation_store[operation_name]
              /\ (lastCheck'.called /\ lastCheck'.operation_name = operation_name) =>
                    lastCheck'.result =
                        StatusResult("succeeded",
                                     operation_store[operation_name].result_uri, None)]_vars

\* C9's case: a succeeded Operation Record has just been checked again, at
\* a later time than the one it holds as completed_at before the check.
C9_Witness ==
    /\ lastCheck.called
    /\ lastCheck.operation_name \in DOMAIN operation_store
    /\ lastCheck.result.status = "succeeded"
    /\ lastCheck.at > operation_store[lastCheck.operation_name].created_at
                          + CompletionThreshold + 1

\* A direct poll loop that has seen nothing but in_progress so far.
OnlyInProgress(loop) == loop.pc # "idle" /\ loop.last \in {"", "in_progress"}

\* C10: a poll loop whose status checks all answer in_progress makes at most
\* ceil(timeout / interval) of them, never sleeps to or past
\* start_time + timeout + interval, and returns None before that time.
C10_PollBounded ==
    LET loop == pollLoop IN
        (OnlyInProgress(loop) /\ loop.interval > 0) =>
            /\ loop.calls * loop.interval < loop.timeout + loop.interval
            /\ loop.pc = "sleeping" =>
                  /\ now <= loop.wake
                  /\ loop.wake < loop.start_time + loop.timeout + loop.interval
            /\ loop.pc = "returned" =>
                  /\ IsNone(loop.value)
                  /\ loop.returned_at < loop.start_time + loop.timeout + loop.interval

\* C10's case: a loop that polled more than once, saw in_progress each time
\* and returned None when its timeout had passed.
C10_Witness ==
    /\ pollLoop.pc = "returned"
    /\ pollLoop.last = "in_progress"
    /\ pollLoop.calls >= 2
    /\ IsNone(pollLoop.value)
    /\ pollLoop.returned_at >= pollLoop.start_time + pollLoop.timeout

\* C11: a poll loop returns a value only when its last status check
\* answered succeeded, and then that check's uri; after a failed or error
\* answer it returns None in the same pass, with no further check or sleep;
\* it sleeps only after in_progress; on timeout it returns None.
C11_PollResult ==
    /\ pollLoop.pc = "sleeping" => pollLoop.last = "in_progress"
    /\ pollLoop.pc = "returned" =>
          /\ ~IsNone(pollLoop.value) =>
                /\ pollLoop.last = "succeeded"
                /\ pollLoop.value =
                       check_video_generation_status(
                           operation_store, pollLoop.operation_name,
                           pollLoop.returned_at).result.uri
          /\ pollLoop.last = "succeeded" => ~IsNone(pollLoop.value)
          /\ pollLoop.last \in {"succeeded", "failed", "error"} =>
                pollLoop.calls = pollLoop.sleeps + 1
          /\ pollLoop.last \in {"failed", "error", "in_progress", ""} =>
                IsNone(pollLoop.value)
          /\ pollLoop.last \in {"in_progress", ""} =>
                /\ pollLoop.calls = pollLoop.sleeps
                /\ ~WithinTimeout(pollLoop.returned_at, pollLoop.start_time,
                                  pollLoop.timeout)

\* C11's case: a loop that slept, then saw succeeded and returned the uri
\* of a stored operation.
C11_Witness ==
    /\ pollLoop.pc = "returned"
    /\ pollLoop.sleeps >= 1
    /\ pollLoop.last = "succeeded"
    /\ pollLoop.operation_name \in DOMAIN operation_store
    /\ pollLoop.value = operation_store[pollLoop.operation_name].result_uri

\* C12: GET and DELETE /video-status/{video_id} for an id without a record
\* answer 404 with no payload and leave video_status_store as it is.
C12_NotFound ==
    [][(/\ response'.op \in {"GET", "DELETE"}
        /\ response'.video_id \notin DOMAIN video_status_store)
       => /\ response'.code = 404
          /\ IsNone(response'.body)
          /\ video_status_store' = video_status_store]_vars

\* C12's case: a request about the id of a started job whose record has
\* been deleted is answered 404.
C12_Witness ==
    /\ response.op \in {"GET", "DELETE"}
    /\ response.code = 404
    /\ \E p \in Started : tasks[p].video_id = response.video_id

C14_QueuedOnReturn ==
    [][response'.op = "POST" =>
          LET p == Cardinality({q \in Tasks : tasks'[q].pc # "idle"}) IN
          /\ response'.video_id \in DOMAIN video_status_store'
          /\ video_status_store'[response'.video_id].status = "queued"
          /\ video_status_store'[response'.video_id].progress_percentage = 0
          /\ tasks[p].pc = "idle"
          /\ tasks'[p].pc = "scheduled"
          /\ tasks'[p].video_id = response'.video_id
          /\ \A q \in Tasks \ {p} : tasks'[q] = tasks[q]
          /\ operation_store' = operation_store
          /\ uuids' = uuids
          /\ returned' = returned]_vars

\* C14's case: a second POST has just answered while the first job's
\* pipeline is past its prompt stage.
C14_Witness ==
    /\ response.op = "POST"
    /\ tasks[2].pc = "scheduled"
    /\ tasks[1].pc \in {"in_executor", "submitted", "sleeping"}

\* The status values an Operation Record may hold.
OperationStatuses == {"in_progress", "succeeded", "failed", "error"}

\* C15: every Operation Record's status is in_progress, succeeded, failed
\* or error, whichever submission path stored it.
C15_StatusDomain ==
    \A operation_name \in DOMAIN operation_store :
        operation_store[operation_name].status \in OperationStatuses

\* What C16 says of one record: the percentage is in 0..100, is 100 exactly
\* when the status is completed, and is 0 when the status is failed.
ProgressInRange(record) ==
    /\ record.progress_percentage \in 0..100
    /\ record.progress_percentage = 100 <=> record.status = "completed"
    /\ record.status = "failed" => record.progress_percentage = 0

PromptFails(prompt) ==
    prompt.raised \/ IsNone(prompt.value) \/ prompt.value = Some("")

\* C17: a pipeline whose prompt stage fails leaves its record failed with
\* a non-empty error message in the same step that made it processing,
\* ends there with no identifier, and leaves operation_store as it is; and
\* a pipeline that has ended takes no further step.
C17_PromptFailure ==
    [][\A p \in Tasks :
          /\ \A prompt \in TaskPromptResults(p) :
                (PromptFails(prompt) /\ PipelineStart(p, prompt)) =>
                    /\ tasks'[p].pc = "finished"
                    /\ IsNone(tasks'[p].params)
                    /\ IsNone(tasks'[p].operation_name)
                    /\ tasks[p].video_id \in DOMAIN video_status_store'
                    /\ video_status_store'[tasks[p].video_id].status = "failed"
                    /\ video_status_store'[tasks[p].video_id].error_message
                           \notin {None, Some("")}
                    /\ operation_store' = operation_store
                    /\ uuids' = uuids
          /\ tasks[p].pc \in {"finished", "raised"} => tasks'[p] = tasks[p]]_vars

\* C17's case: a pipeline ended by an empty or absent prompt, its record
\* failed, while another job's pipeline has an operation stored.
C17_Witness ==
    \E p \in Tasks :
        /\ tasks[p].pc = "finished"
        /\ IsNone(tasks[p].params)
        /\ tasks[p].video_id \in DOMAIN video_status_store
        /\ video_status_store[tasks[p].video_id].error_message
               = Some("Failed to generate a valid prompt")
        /\ operation_store # << >>

\* C18: every submission returns an identifier: a new stored operation when
\* the primary call succeeds, a new stored operation of the fallback model
\* when the primary call fails and the fallback succeeds, and the sentinel,
\* with operation_store untouched, when both fail; and every status check
\* of the sentinel answers succeeded with the one fixed uri and changes
\* nothing.
C18_SubmitTotal ==
    [][/\ \A params \in GenParams : \A outcome \in BackendOutcomes :
             GenSubmit(params, outcome) =>
                 LET new == DOMAIN operation_store' \ DOMAIN operation_store IN
                 /\ \E operation_name \in returned' :
                        returned' = returned \cup {operation_name}
                 /\ outcome = "primary" =>
                        /\ Cardinality(new) = 1
                        /\ new \subseteq returned'
                        /\ \A n \in new : IsNone(operation_store'[n].model_used)
                 /\ outcome = "fallback" =>
                        /\ Cardinality(new) = 1
                        /\ new \subseteq returned'
                        /\ \A n \in new : ~IsNone(operation_store'[n].model_used)
                 /\ outcome \in {"init_fails", "both_fail"} =>
                        /\ returned' = returned \cup {dummy_operation_name}
                        /\ operation_store' = operation_store
       /\ (lastCheck'.called /\ lastCheck'.operation_name = dummy_operation_name) =>
             /\ lastCheck'.result =
                    StatusResult("succeeded", Some(dummy_result_uri), None)
             /\ operation_store' = operation_store]_vars

\* C18's case: both backend calls failed, the sentinel was returned, and a
\* status check of it made a second or more later has just answered.
C18_Witness ==
    /\ dummy_operation_name \in returned
    /\ uuids > 0
    /\ lastCheck.called
    /\ lastCheck.operation_name = dummy_operation_name
    /\ lastCheck.at > 0
    /\ lastCheck.result.status = "succeeded"

\* Task p's submission drew its operation id and then saw the primary and
\* the fallback call raise: it is the only job of the run, a uuid was drawn
\* and nothing was stored.
FallbackRaised(p) ==
    /\ Started = {p}
    /\ tasks[p].operation_name = Some(dummy_operation_name)
    /\ uuids > 0
    /\ operation_store = << >>

C20_SleepBeforeEveryCall == pollLoop.calls <= pollLoop.sleeps

\* C20, amended: the first status check is made when the loop starts, with
\* no sleep before it; every later one comes after one sleep of interval:
\* check number k is made at start_time + (k - 1) * interval.
C20_SleepBetweenCalls ==
    /\ pollLoop.calls <= pollLoop.sleeps + 1
    /\ pollLoop.pc = "sleeping" =>
          /\ pollLoop.calls = pollLoop.sleeps + 1
          /\ pollLoop.wake = pollLoop.start_time + pollLoop.calls * pollLoop.interval
          /\ now >= pollLoop.wake - pollLoop.interval
          /\ now <= pollLoop.wake
    /\ pollLoop.pc = "returned" =>
          pollLoop.returned_at
              = pollLoop.start_time + pollLoop.sleeps * pollLoop.interval

\* C20's case: a loop that has made three status checks or more and sleeps.
C20_Witness ==
    /\ pollLoop.pc = "sleeping"
    /\ pollLoop.calls >= 3
    /\ pollLoop.interval >= 1

\* The message of the TypeError the call of app.py:113 raises.
WiredPromptError == PromptCallAsWritten(CHOOSE r \in Requests : TRUE, "text").message

\* C21: the job flow as wired reaches completed.  A record is completed only
\* by a pipeline that went on from its prompt stage to the submission, so
\* the claim needs the prompt stage as app.py:113 calls it to pass when
\* Gemini answers with a text: that step hands the job to the executor.
C21_WiredReachesSubmission ==
    [][\A p \in Tasks :
          (/\ tasks[p].pc = "scheduled"
           /\ PipelineStart(p, PromptCallAsWritten(Value(tasks[p].request), "text")))
          => tasks'[p].pc = "in_executor"]_vars

\* C21's case: a pipeline whose prompt stage ran as wired has ended, its
\* record failed with the TypeError's message.
C21_Witness ==
    \E p \in Tasks :
        /\ tasks[p].pc = "finished"
        /\ IsNone(tasks[p].params)
        /\ tasks[p].video_id \in DOMAIN video_status_store
        /\ video_status_store[tasks[p].video_id].status = "failed"
        /\ video_status_store[tasks[p].video_id].error_message = Some(WiredPromptError)

\* C22: an id without a record gets one only by a POST /generate-video that
\* returns that id: after deleteJob no pipeline, waiting or in flight,
\* re-creates the record.
C22_DeletedStaysDeleted ==
    [][\A id \in AllIds :
          (id \notin DOMAIN video_status_store /\ id \in DOMAIN video_status_store')
          => (response'.op = "POST" /\ response'.video_id = id)]_vars

\* C22's case: a job's record was deleted while its pipeline was in flight
\* and the pipeline has ended since: its write raised KeyError, and the id
\* has no record.
C22_Witness ==
    \E p \in Tasks :
        /\ tasks[p].pc = "raised"
        /\ tasks[p].video_id \notin DOMAIN video_status_store

\* The Operation Record `new` differs from `old` at most in the fields the
\* status poller writes.
OnlyPollerFields(old, new) ==
    new = [old EXCEPT !.status = new.status,
                      !.completed_at = new.completed_at,
                      !.result_uri = new.result_uri]

\* C23: no step removes a key of operation_store; a record in it keeps its
\* submitted parameters, operation_id and created_at; and it changes only
\* in a status check of its own key, and only in status, completed_at and
\* result_uri.
C23_OperationFrame ==
    [][\A k \in DOMAIN operation_store :
          /\ k \in DOMAIN operation_store'
          /\ OnlyPollerFields(operation_store[k], operation_store'[k])
          /\ operation_store'[k] # operation_store[k]
                => (lastCheck'.called /\ lastCheck'.operation_name = k)]_vars

\* C23's case: two operations are stored and a status check has just
\* marked one of them succeeded.
C23_Witness ==
    /\ Cardinality(DOMAIN operation_store) = 2
    /\ lastCheck.called
    /\ lastCheck.result.status = "succeeded"
    /\ lastCheck.operation_name \in DOMAIN operation_store
    /\ operation_store[lastCheck.operation_name].status = "succeeded"
    /\ \E k \in DOMAIN operation_store : operation_store[k].status # "succeeded"

\* The pipelines that hold the operation name k.
Owners(k) == {p \in Tasks : tasks[p].operation_name = Some(k)}

\* C24: an operation_store key is created by the submission of one
\* pipeline, running on the executor, and changed afterwards only by that
\* pipeline's poll loop on the event loop, with no other pipeline holding
\* the key; and a pipeline that polls a name it was given finds the
\* submission's write done.
C24_SingleWriterPerKey ==
    /\ [](\A p \in Tasks :
             (/\ tasks[p].pc \in {"submitted", "sleeping"}
              /\ tasks[p].operation_name # Some(dummy_operation_name))
             => Value(tasks[p].operation_name) \in DOMAIN operation_store)
    /\ [][\A k \in DOMAIN operation_store' :
             (k \notin DOMAIN operation_store
                  \/ operation_store'[k] # operation_store[k])
             => \E p \in Tasks :
                   /\ tasks'[p] # tasks[p]
                   /\ \A q \in Tasks \ {p} : tasks'[q] = tasks[q]
                   /\ Owners(k)' = {p}
                   /\ IF k \in DOMAIN operation_store
                      THEN tasks[p].pc \in {"submitted", "sleeping"} /\ Owners(k) = {p}
                      ELSE tasks[p].pc = "in_executor" /\ Owners(k) = {}]_vars

\* C24's case: two pipelines each hold a stored operation of their own, one
\* of them marked succeeded by its poll loop while the other still sleeps.
C24_Witness ==
    \E p, q \in Tasks :
        /\ p # q
        /\ tasks[p].pc = "finished" /\ tasks[q].pc = "sleeping"
        /\ ~IsNone(tasks[p].operation_name) /\ ~IsNone(tasks[q].operation_name)
        /\ tasks[p].operation_name # tasks[q].operation_name
        /\ Value(tasks[p].operation_name) \in DOMAIN operation_store
        /\ Value(tasks[q].operation_name) \in DOMAIN operation_store
        /\ operation_store[Value(tasks[p].operation_name)].status = "succeeded"

\* str(Exception("Video generation failed or timed out.")), app.py:143
PollFailureMessage == "Video generation failed or timed out."

\* C25: in the job pipeline a poll loop makes at most two status checks
\* and, once it has returned, has returned a URI; and no record is failed
\* with the message of a polling failure or a timeout.
C25_PipelinePollSucceeds ==
    /\ \A p \in Tasks :
          /\ tasks[p].loop.calls <= 2
          /\ tasks[p].loop.pc = "returned" => ~IsNone(tasks[p].loop.value)
    /\ \A id \in DOMAIN video_status_store :
          video_status_store[id].error_message # Some(PollFailureMessage)

\* C25's case: a pipeline's poll loop slept once and returned a URI at its
\* second status check, 30 seconds after the first.
C25_Witness ==
    \E p \in Tasks :
        /\ tasks[p].loop.pc = "returned"
        /\ tasks[p].loop.calls = 2
        /\ ~IsNone(tasks[p].loop.value)
        /\ tasks[p].loop.returned_at = tasks[p].loop.start_time + poll_interval

\* The result URIs the status poller has given for stored operations.
PolledUris ==
    {Value(operation_store[k].result_uri) :
        k \in {n \in DOMAIN operation_store :
                  /\ operation_store[n].status = "succeeded"
                  /\ ~IsNone(operation_store[n].result_uri)}}

=============================================================================
